---------------------------- MODULE Spec2Model ----------------------------
(***************************************************************************)
(* tldwatch: fetch the IANA TLD list, normalise every line, insert the     *)
(* entries into a sqlite table with a primary key, print the entries that  *)
(* were new.  The model follows run() and loadTLDs() statement by          *)
(* statement; one invocation of the program is one pass from StartRun to   *)
(* pc = "done", and the backing file (fileState, rows) survives between    *)
(* invocations.                                                            *)
(*                                                                         *)
(* Environment outcomes that the code handles with an error branch         *)
(* (network failure, sql errors, a failing write to stdout) are            *)
(* nondeterministic choices.  The request deadline is the flag ctxDone,    *)
(* which the environment may raise at any point of a run.                  *)
(***************************************************************************)
EXTENDS Integers, Sequences, FiniteSets

\* Longest response body (in lines) that the model serves.
MaxLines == 2

Range(s) == {s[k] : k \in DOMAIN s}

(***************************************************************************)
(* The lines the server may send.  Strings are opaque to TLC, so the       *)
(* string functions of loadTLDs are given as tables over this alphabet.    *)
(*   "# tlds"     the comment line that heads the IANA file                *)
(*   ""           a blank line                                             *)
(*   " COM "      a plain ASCII label with surrounding blanks              *)
(*   "XN--P1AI"   a well-formed ACE label (U+0440 U+0444)                  *)
(*   "XN--#1"     a malformed ACE label: '#' is no punycode digit          *)
(*   "XN--0-0HC"  a well-formed ACE label whose decoded form, the digit 0  *)
(*                followed by U+05D0, violates the Bidi rule (RFC 5893     *)
(*                rule 1: an RTL label must start with R or AL)            *)
(***************************************************************************)
RawLines == {"# tlds", "", " COM ", "XN--P1AI", "XN--#1", "XN--0-0HC"}

\* strings.ToLower(strings.TrimSpace(raw))
TrimLower(raw) ==
    CASE raw = " COM "     -> "com"
      [] raw = "XN--P1AI"  -> "xn--p1ai"
      [] raw = "XN--#1"    -> "xn--#1"
      [] raw = "XN--0-0HC" -> "xn--0-0hc"
      [] OTHER             -> raw

\* line == "" || strings.HasPrefix(line, "#")
Skip(line) == line = "" \/ line = "# tlds"

(***************************************************************************)
(* prof.ToUnicode(line) for prof = idna.New(idna.BidiRule()).  The call    *)
(* returns the processed string together with the error: a label whose     *)
(* punycode does not decode is kept as it was; a label that decodes is     *)
(* replaced by its decoded form before the Bidi rule is applied to it, so  *)
(* on a Bidi error the returned string is the decoded label.               *)
(***************************************************************************)
ToUnicode(line) ==
    CASE line = "xn--p1ai"  -> [t |-> "<U+0440><U+0444>", err |-> FALSE]
      [] line = "xn--#1"    -> [t |-> "xn--#1",           err |-> TRUE]
      [] line = "xn--0-0hc" -> [t |-> "0<U+05D0>",        err |-> TRUE]
      [] OTHER              -> [t |-> line,               err |-> FALSE]

\* One iteration of the scanner loop of loadTLDs on the entry list.
ScanOne(tl, raw) ==
    LET line == TrimLower(raw)
    IN  IF Skip(line) THEN tl ELSE Append(tl, ToUnicode(line).t)

\* The decode-failure log line of one iteration, if any.
ScanLog(raw) ==
    LET line == TrimLower(raw)
    IN  IF ~Skip(line) /\ ToUnicode(line).err THEN {<<"decode", line>>} ELSE {}

\* The whole scanner loop on a body that is read to its end.
RECURSIVE ParseAll(_)
ParseAll(lines) ==
    IF lines = <<>> THEN <<>>
    ELSE ScanOne(ParseAll(SubSeq(lines, 1, Len(lines) - 1)), lines[Len(lines)])

Sources == UNION {[1..n -> RawLines] : n \in 0..MaxLines}

(***************************************************************************)
(* context.WithoutCancel(ctx): the derived context is never done.  A       *)
(* context is represented by its done flag.                                *)
(***************************************************************************)
WithoutCancelDropped(done) == done

WithoutCancel(done) == FALSE

(***************************************************************************)
(* stmt.ExecContext(c, tld) on table tlds (tld text primary key not null)  *)
(* strict.  A done context fails the call; fault is any other failure of   *)
(* the database; otherwise the primary key decides.                        *)
(***************************************************************************)
ExecContextNoStore(done, rws, t, fault) ==
    IF done THEN [res |-> "canceled", rows |-> rws]
    ELSE IF fault THEN [res |-> "err", rows |-> rws]
    ELSE IF t \in Range(rws) THEN [res |-> "dup", rows |-> rws]
    ELSE [res |-> "ok", rows |-> rws]

ExecContextNoKey(done, rws, t, fault) ==
    IF done THEN [res |-> "canceled", rows |-> rws]
    ELSE IF fault THEN [res |-> "err", rows |-> rws]
    ELSE [res |-> "ok", rows |-> Append(rws, t)]

ExecContext(done, rws, t, fault) ==
    IF done THEN [res |-> "canceled", rows |-> rws]
    ELSE IF fault THEN [res |-> "err", rows |-> rws]
    ELSE IF t \in Range(rws) THEN [res |-> "dup", rows |-> rws]
    ELSE [res |-> "ok", rows |-> Append(rws, t)]

\* The body of the insert loop after the call: both error branches
\* continue, only a nil error reaches the append.
AppendNewUnlessDup(nt, t, res) == IF res # "dup" THEN Append(nt, t) ELSE nt

AppendNewUnlessLogged(nt, t, res) ==
    IF res \in {"ok", "dup"} THEN Append(nt, t) ELSE nt

AppendNew(nt, t, res) == IF res = "ok" THEN Append(nt, t) ELSE nt

\* The insert loop's progress: `continue` and the fall-through both move
\* to the next entry; n is len(tlds).
LoopNextBreak(i, n, res) == IF res \in {"err", "canceled"} THEN n ELSE i + 1

LoopNext(i, n, res) == i + 1

NoOutput == [written |-> FALSE, doc |-> <<>>]
NoPrev   == [has |-> FALSE, attempts |-> <<>>, written |-> FALSE]

VARIABLES
    source,        \* the list the server holds (lines of the response body)
    fileState,     \* backing file: "absent", "empty" (no table), "ready"
    rows,          \* rows of table tlds, in insertion order
    pc,            \* position of the invocation in run
    ctxDone,       \* run's ctx is done (deadline passed)
    pos,           \* lines of the body the scanner has consumed
    tlds,          \* loadTLDs' result so far
    isFirstRun,
    dbOpen,        \* db handle acquired and not closed
    stmtOpen,      \* prepared statement acquired and not closed
    idx,           \* entries of tlds the insert loop is done with
    newTLDs,
    out,           \* what this invocation wrote to standard output
    err,           \* run's return value: "none" while running
    logs,          \* log lines of this invocation
    attempts,      \* history: the insert calls of this invocation
    rowsAtStart,   \* history: rows when the invocation started
    fileAtStart,   \* history: fileState when the invocation started
    fetchTimedOut, \* history: the deadline ended the fetch early
    lateExpiry,    \* history: the deadline passed after the fetch returned
    prev           \* history: the previous invocation

vars == <<source, fileState, rows, pc, ctxDone, pos, tlds, isFirstRun, dbOpen,
          stmtOpen, idx, newTLDs, out, err, logs, attempts, rowsAtStart,
          fileAtStart, fetchTimedOut, lateExpiry, prev>>

store   == <<fileState, rows>>
fetched == <<pos, tlds>>
handles == <<dbOpen, stmtOpen>>
loop    == <<idx, newTLDs, attempts>>
hist    == <<rowsAtStart, fileAtStart, prev>>

Init ==
    /\ source \in Sources
    /\ fileState = "absent"
    /\ rows = <<>>
    /\ pc = "idle"
    /\ ctxDone = FALSE
    /\ pos = 0
    /\ tlds = <<>>
    /\ isFirstRun = FALSE
    /\ dbOpen = FALSE
    /\ stmtOpen = FALSE
    /\ idx = 0
    /\ newTLDs = <<>>
    /\ out = NoOutput
    /\ err = "none"
    /\ logs = {}
    /\ attempts = <<>>
    /\ rowsAtStart = <<>>
    /\ fileAtStart = "absent"
    /\ fetchTimedOut = FALSE
    /\ lateExpiry = FALSE
    /\ prev = NoPrev

\* main calls run in a fresh process: ctx, cancel := WithTimeout(...)
StartRun ==
    /\ pc \in {"idle", "done"}
    /\ pc' = "connect"
    /\ prev' = IF pc = "done"
               THEN [has |-> TRUE, attempts |-> attempts, written |-> out.written]
               ELSE prev
    /\ ctxDone' = FALSE
    /\ pos' = 0
    /\ tlds' = <<>>
    /\ isFirstRun' = FALSE
    /\ dbOpen' = FALSE
    /\ stmtOpen' = FALSE
    /\ idx' = 0
    /\ newTLDs' = <<>>
    /\ out' = NoOutput
    /\ err' = "none"
    /\ logs' = {}
    /\ attempts' = <<>>
    /\ rowsAtStart' = rows
    /\ fileAtStart' = fileState
    /\ fetchTimedOut' = FALSE
    /\ lateExpiry' = FALSE
    /\ UNCHANGED <<source, store>>

\* The 10 second deadline of ctx (and of the http client) passes.
Expire ==
    /\ pc \notin {"idle", "done"}
    /\ ~ctxDone
    /\ ctxDone' = TRUE
    /\ lateExpiry' = (pc \notin {"connect", "read"})
    /\ UNCHANGED <<source, store, pc, fetched, isFirstRun, handles, loop, out,
                   err, logs, hist, fetchTimedOut>>

\* client.Do(req) returns a response.
ConnectOk ==
    /\ pc = "connect"
    /\ ~ctxDone
    /\ pc' = "read"
    /\ UNCHANGED <<source, store, ctxDone, fetched, isFirstRun, handles, loop,
                   out, err, logs, hist, fetchTimedOut, lateExpiry>>

\* client.Do(req) fails (network, or the deadline): loadTLDs returns the
\* error and run returns it.
ConnectFail ==
    /\ pc = "connect"
    /\ err' = "fetch"
    /\ pc' = "done"
    /\ fetchTimedOut' = ctxDone
    /\ UNCHANGED <<source, store, ctxDone, fetched, isFirstRun, handles, loop,
                   out, logs, hist, lateExpiry>>

\* scanner.Scan() delivers the next line; one pass through the loop body.
ScanLine ==
    /\ pc = "read"
    /\ ~ctxDone
    /\ pos < Len(source)
    /\ pos' = pos + 1
    /\ tlds' = ScanOne(tlds, source[pos + 1])
    /\ logs' = logs \cup ScanLog(source[pos + 1])
    /\ UNCHANGED <<source, store, pc, ctxDone, isFirstRun, handles, loop, out,
                   err, hist, fetchTimedOut, lateExpiry>>

\* scanner.Scan() returns false, at the end of the body or because the read
\* failed on the deadline; scanner.Err() is not consulted and loadTLDs
\* returns (tlds, nil).
ScanEnd ==
    /\ pc = "read"
    /\ pos = Len(source) \/ ctxDone
    /\ fetchTimedOut' = (ctxDone /\ pos < Len(source))
    /\ pc' = "stat"
    /\ UNCHANGED <<source, store, ctxDone, fetched, isFirstRun, handles, loop,
                   out, err, logs, hist, lateExpiry>>

\* os.Stat(sqliteFile); os.IsNotExist(err)
Stat ==
    /\ pc = "stat"
    /\ isFirstRun' = (fileState = "absent")
    /\ pc' = "open"
    /\ UNCHANGED <<source, store, ctxDone, fetched, handles, loop, out, err,
                   logs, hist, fetchTimedOut, lateExpiry>>

\* sql.Open returns a handle (it does not touch the file yet).
OpenOk ==
    /\ pc = "open"
    /\ dbOpen' = TRUE
    /\ pc' = IF isFirstRun THEN "init" ELSE "prepare"
    /\ UNCHANGED <<source, store, ctxDone, fetched, isFirstRun, stmtOpen, loop,
                   out, err, logs, hist, fetchTimedOut, lateExpiry>>

\* sql.Open fails: no handle.
OpenFail ==
    /\ pc = "open"
    /\ err' = "open"
    /\ pc' = "done"
    /\ UNCHANGED <<source, store, ctxDone, fetched, isFirstRun, handles, loop,
                   out, logs, hist, fetchTimedOut, lateExpiry>>

\* db.Exec(sqliteInitStmt) succeeds: file created, table committed.
InitOk ==
    /\ pc = "init"
    /\ fileState' = "ready"
    /\ logs' = logs \cup {<<"info", "initialized">>}
    /\ pc' = "prepare"
    /\ UNCHANGED <<source, rows, ctxDone, fetched, isFirstRun, handles, loop,
                   out, err, hist, fetchTimedOut, lateExpiry>>

\* db.Exec(sqliteInitStmt) fails.  Either the connection could not create
\* the file, or it created the file and the transaction did not commit.
InitFail ==
    /\ pc = "init"
    /\ \E left \in {"absent", "empty"} : fileState' = left
    /\ err' = "init"
    /\ pc' = "done"
    /\ UNCHANGED <<source, rows, ctxDone, fetched, isFirstRun, handles, loop,
                   out, logs, hist, fetchTimedOut, lateExpiry>>

\* db.Prepare(sqliteInsertStmt) succeeds; stmt.Close is deferred.
PrepareOk ==
    /\ pc = "prepare"
    /\ fileState = "ready"
    /\ stmtOpen' = TRUE
    /\ idx' = 0
    /\ pc' = "loop"
    /\ UNCHANGED <<source, store, ctxDone, fetched, isFirstRun, dbOpen, newTLDs,
                   attempts, out, err, logs, hist, fetchTimedOut, lateExpiry>>

\* db.Prepare fails: always when the table is missing, possibly otherwise.
PrepareFail ==
    /\ pc = "prepare"
    /\ err' = "prepare"
    /\ pc' = "done"
    /\ UNCHANGED <<source, store, ctxDone, fetched, isFirstRun, handles, loop,
                   out, logs, hist, fetchTimedOut, lateExpiry>>

\* One iteration of the insert loop.
InsertStep ==
    /\ pc = "loop"
    /\ idx < Len(tlds)
    /\ \E fault \in BOOLEAN :
         LET t  == tlds[idx + 1]
             r  == ExecContext(WithoutCancel(ctxDone), rows, t, fault)
             nt == AppendNew(newTLDs, t, r.res)
         IN  /\ rows' = r.rows
             /\ newTLDs' = nt
             /\ attempts' = Append(attempts,
                                   [tld |-> t, res |-> r.res, app |-> nt # newTLDs])
             /\ logs' = IF r.res \in {"err", "canceled"}
                        THEN logs \cup {<<"insert", t>>} ELSE logs
             /\ idx' = LoopNext(idx, Len(tlds), r.res)
    /\ UNCHANGED <<source, fileState, pc, ctxDone, fetched, isFirstRun, handles,
                   out, err, hist, fetchTimedOut, lateExpiry>>

\* json.NewEncoder(os.Stdout).Encode(newTLDs) succeeds; return nil runs the
\* deferred stmt.Close.
EncodeOk ==
    /\ pc = "loop"
    /\ idx = Len(tlds)
    /\ out' = [written |-> TRUE, doc |-> newTLDs]
    /\ err' = "nil"
    /\ stmtOpen' = FALSE
    /\ pc' = "done"
    /\ UNCHANGED <<source, store, ctxDone, fetched, isFirstRun, dbOpen, loop,
                   logs, hist, fetchTimedOut, lateExpiry>>

\* Encode fails; the error return runs the deferred stmt.Close.
EncodeFail ==
    /\ pc = "loop"
    /\ idx = Len(tlds)
    /\ err' = "encode"
    /\ stmtOpen' = FALSE
    /\ pc' = "done"
    /\ UNCHANGED <<source, store, ctxDone, fetched, isFirstRun, dbOpen, loop,
                   out, logs, hist, fetchTimedOut, lateExpiry>>

Next ==
    \/ StartRun
    \/ Expire
    \/ ConnectOk
    \/ ConnectFail
    \/ ScanLine
    \/ ScanEnd
    \/ Stat
    \/ OpenOk
    \/ OpenFail
    \/ InitOk
    \/ InitFail
    \/ PrepareOk
    \/ PrepareFail
    \/ InsertStep
    \/ EncodeOk
    \/ EncodeFail

Spec == Init /\ [][Next]_vars



(***************************************************************************)
(* Helpers of the properties.                                              *)
(***************************************************************************)
Tlds(log)      == [k \in DOMAIN log |-> log[k].tld]
IsOk(a)        == a.res = "ok"
OkEntries(log) == Tlds(SelectSeq(log, IsOk))
NoDup(s)       == \A i, j \in DOMAIN s : s[i] = s[j] => i = j
Normalised(lines) == [k \in DOMAIN lines |-> TrimLower(lines[k])]
IsKept(line)   == ~Skip(line)
Kept(lines)    == SelectSeq(Normalised(lines), IsKept)
PrevKnown      == {prev.attempts[k].tld :
                     k \in {i \in DOMAIN prev.attempts :
                              prev.attempts[i].res \in {"ok", "dup"}}}
PrevClean      == /\ Tlds(prev.attempts) = ParseAll(source)
                  /\ \A k \in DOMAIN prev.attempts :
                       prev.attempts[k].res \in {"ok", "dup"}
ReachedLoop    == pc = "done" /\ err \in {"nil", "encode"}

C2_AppendedIffNotDuplicate ==
    \A k \in DOMAIN attempts : attempts[k].app <=> attempts[k].res # "dup"

\* C2 (amended): an entry is appended to newTLDs iff its insert returned no
\* error at all, neither the uniqueness violation nor any other one.
C2_AppendedIffInsertSucceeded ==
    \A k \in DOMAIN attempts : attempts[k].app <=> attempts[k].res = "ok"

C2_Witness ==
    /\ \E k \in DOMAIN attempts : attempts[k].res = "err" /\ ~attempts[k].app
    /\ \E k \in DOMAIN attempts : attempts[k].res = "ok" /\ attempts[k].app

\* The written array is the subsequence of the parsed entries whose insert
\* succeeded, free of duplicates and of entries stored before.
OutputIsOkSubsequence ==
    out.written =>
        /\ Tlds(attempts) = tlds
        /\ out.doc = OkEntries(attempts)
        /\ NoDup(out.doc)
        /\ \A e \in Range(out.doc) : e \notin Range(rowsAtStart)

\* C3 (as stated): the output is that subsequence, and a reported entry is
\* reported at its first occurrence in the list.
C3_ReportedAtFirstOccurrence ==
    /\ OutputIsOkSubsequence
    /\ out.written =>
         \A k \in DOMAIN attempts : attempts[k].res = "ok" =>
             \A j \in 1..(k - 1) : attempts[j].tld # attempts[k].tld

\* C3 (amended): the output is that subsequence, and a reported entry is
\* reported once, at its first occurrence whose insert did not fail: every
\* earlier occurrence failed with an error other than the uniqueness one.
C3_ReportedAtFirstSuccess ==
    /\ OutputIsOkSubsequence
    /\ out.written =>
         \A k \in DOMAIN attempts : attempts[k].res = "ok" =>
             \A j \in 1..(k - 1) :
                 attempts[j].tld = attempts[k].tld => attempts[j].res = "err"

C3_Witness ==
    /\ out.written
    /\ \E k \in DOMAIN attempts :
         /\ attempts[k].res = "dup"
         /\ \E j \in 1..(k - 1) :
              attempts[j].tld = attempts[k].tld /\ attempts[j].res = "ok"
    /\ Len(out.doc) = 1

\* C4: a fetch that ran into the deadline aborts run: no insert is
\* attempted, file and rows are as they were (the file is not even created),
\* nothing is written.
C4_TimeoutAbortsRun ==
    fetchTimedOut =>
        /\ attempts = <<>>
        /\ rows = rowsAtStart
        /\ fileState = fileAtStart
        /\ ~out.written

\* C5: when run has returned, the database handle and the prepared
\* statement are released.
C5_HandlesReleased ==
    pc = "done" => ~dbOpen /\ ~stmtOpen

\* C6 (as stated): in a run that reached the insert loop every entry got one
\* attempt in order and the successful ones are stored; a run in which an
\* insert failed still wrote its output and returned nil.
C6_LoopAlwaysReports ==
    /\ pc = "loop" => Tlds(attempts) = SubSeq(tlds, 1, idx)
    /\ \A k \in DOMAIN attempts :
         attempts[k].res = "ok" => attempts[k].tld \in Range(rows)
    /\ (ReachedLoop /\ \E k \in DOMAIN attempts : attempts[k].res # "ok")
         => Tlds(attempts) = tlds /\ out.written /\ err = "nil"

\* C6 (amended): as C6, but the run writes its output and returns nil unless
\* the JSON encoding to standard output itself fails; no insert outcome
\* keeps the run from reaching the encoding step with every entry attempted.
C6_LoopAlwaysCompletes ==
    /\ pc = "loop" => Tlds(attempts) = SubSeq(tlds, 1, idx)
    /\ \A k \in DOMAIN attempts :
         attempts[k].res = "ok" => attempts[k].tld \in Range(rows)
    /\ ReachedLoop => /\ Tlds(attempts) = tlds
                      /\ out.written <=> err = "nil"
                      /\ out.written => out.doc = newTLDs

C6_Witness ==
    /\ pc = "done" /\ err = "nil" /\ out.written
    /\ Len(attempts) = 2
    /\ attempts[1].res = "ok"
    /\ attempts[2].res = "err"
    /\ attempts[1].tld \in Range(rows)

\* C7 (as stated): the table is duplicate-free and after a run it holds what
\* it held before plus exactly the entries the run reported.
C7_StoreGrowsByReported ==
    /\ NoDup(rows)
    /\ pc = "done" => rows = rowsAtStart \o out.doc

\* C7 (amended): the table is duplicate-free and at every point of a run it
\* holds what it held before plus exactly the entries whose insert succeeded
\* in this run (newTLDs), unchanged; these are the entries the run reports
\* if it writes its output, and a run whose encoding fails has stored them
\* without reporting them.
C7_StoreGrowsByInserted ==
    /\ NoDup(rows)
    /\ rows = rowsAtStart \o newTLDs
    /\ out.written => out.doc = newTLDs
    /\ fileState # "ready" => rows = <<>>

C7_Witness ==
    /\ pc = "done"
    /\ rowsAtStart # <<>>
    /\ newTLDs # <<>>
    /\ out.written
    /\ \E k \in DOMAIN attempts : attempts[k].res = "dup"

\* C8: every line that is kept and fails to decode is logged and enters the
\* entry list as the trimmed, lowercased line itself.
C8_DecodeFailureKeepsLine ==
    LET kept == Kept(SubSeq(source, 1, pos))
    IN  /\ Len(tlds) = Len(kept)
        /\ \A k \in DOMAIN kept :
             ToUnicode(kept[k]).err =>
                 /\ k \in DOMAIN tlds
                 /\ tlds[k] = kept[k]
                 /\ <<"decode", kept[k]>> \in logs

\* C9: a run that finds the backing file present finds the table in it, and
\* no run reaches db.Prepare on a file without the table.
C9_FirstRunTestSound ==
    /\ (pc \in {"open", "prepare", "loop"} /\ ~isFirstRun) => fileState = "ready"
    /\ pc = "prepare" => fileState = "ready"

\* C10: the deadline does not reach the persistence phase: no insert fails
\* on the done context, every parsed entry is attempted, and the output is
\* written by every run that gets through the encoding.
C10_InsertsDetached ==
    /\ \A k \in DOMAIN attempts : attempts[k].res # "canceled"
    /\ ReachedLoop => Tlds(attempts) = tlds
    /\ (pc = "done" /\ err = "nil") => out.written /\ out.doc = OkEntries(attempts)

C10_Witness ==
    /\ pc = "done" /\ ctxDone /\ lateExpiry
    /\ out.written
    /\ Len(attempts) = 2
    /\ Len(out.doc) = 2

=============================================================================
